---- MODULE Spec2Model ----
(***************************************************************************)
(* Model of auto_rules.py: the MDC codec (convert_rules_to_mdc,            *)
(* convert_mdc_to_rules), the rule store built on whole-document           *)
(* read-modify-write (load_all_rules, add_rule, update_rule, delete_rule,  *)
(* load_rules_by_tags) and the import tool                                 *)
(* mcp_auto_rules_extract_cursor_rules.                                    *)
(*                                                                         *)
(* Spec is the store under sequential calls, SpecCodec and SpecMalformed   *)
(* are the codec on serialized and on hand-written documents, SpecImport   *)
(* is the import tool, and SpecConc is two add_rule calls and a reader     *)
(* running at once.                                                        *)
(*                                                                         *)
(* A Python str is a sequence of one-character strings.  Three fixed       *)
(* Korean phrases of the document format are each written as one           *)
(* character: "T" for the title text, "O" for the original-code label and  *)
(* "M" for the modified-code label.                                        *)
(***************************************************************************)
EXTENDS Integers, Sequences, FiniteSets, TLC

VARIABLES doc, clock, last, addLog, rtIn, rtOut, pc, snap, req, ret, seen

vars ==
    <<doc, clock, last, addLog, rtIn, rtOut, pc, snap, req, ret, seen>>

-----------------------------------------------------------------------------
(* Bounds *)

MaxRules == 2
MaxClock == 1
MaxUuid == 1
MaxLen == 2

-----------------------------------------------------------------------------
(* Python str primitives *)

NL == "\n"

Whitespace == {" ", NL}

Min(S) == CHOOSE x \in S : \A y \in S : x <= y

Max(S) == CHOOSE x \in S : \A y \in S : x >= y

\* s[a..b], empty when a > b (a Python slice, 1-based and inclusive)
Slice(s, a, b) == IF a > b THEN <<>> ELSE SubSeq(s, a, b)

\* s.startswith(p)
StartsWith(s, p) == Len(s) >= Len(p) /\ SubSeq(s, 1, Len(p)) = p

\* s[i:].startswith(p), i 1-based
StartsWithAt(s, i, p) ==
    i + Len(p) - 1 <= Len(s) /\ SubSeq(s, i, i + Len(p) - 1) = p

\* index of the first non-whitespace character at or after i, else Len(s) + 1
RECURSIVE FirstInk(_, _)
FirstInk(s, i) ==
    IF i > Len(s) \/ s[i] \notin Whitespace THEN i ELSE FirstInk(s, i + 1)

\* index of the last non-whitespace character at or before i, else 0
RECURSIVE LastInk(_, _)
LastInk(s, i) ==
    IF i < 1 \/ s[i] \notin Whitespace THEN i ELSE LastInk(s, i - 1)

\* s.strip()
Strip(s) == Slice(s, FirstInk(s, 1), LastInk(s, Len(s)))

\* s.find(c, i): index of the first c at or after i, else Len(s) + 1
RECURSIVE Find(_, _, _)
Find(s, i, c) == IF i > Len(s) \/ s[i] = c THEN i ELSE Find(s, i + 1, c)

\* the lines of s from index from on
RECURSIVE SplitFrom(_, _)
SplitFrom(s, from) ==
    LET j == Find(s, from, NL)
    IN IF j > Len(s) THEN <<Slice(s, from, Len(s))>>
       ELSE <<Slice(s, from, j - 1)>> \o SplitFrom(s, j + 1)

\* s.split(NL): the lines of s, always at least one
Split(s) == SplitFrom(s, 1)

\* s.split(NL)[0]
FirstLine(s) == Slice(s, 1, Find(s, 1, NL) - 1)

\* a join that puts a blank between the lines
RECURSIVE JoinBlank(_)
JoinBlank(lines) ==
    IF Len(lines) = 0 THEN <<>>
    ELSE IF Len(lines) = 1 THEN lines[1]
    ELSE lines[1] \o <<" ">> \o JoinBlank(Tail(lines))

\* NL.join(lines)
RECURSIVE Join(_)
Join(lines) ==
    IF Len(lines) = 0 THEN <<>>
    ELSE IF Len(lines) = 1 THEN lines[1]
    ELSE lines[1] \o <<NL>> \o Join(Tail(lines))

\* s.replace(old, new): left to right, non-overlapping, old non-empty
RECURSIVE ReplaceFrom(_, _, _, _)
ReplaceFrom(s, i, old, new) ==
    IF i > Len(s) THEN <<>>
    ELSE IF StartsWithAt(s, i, old)
         THEN new \o ReplaceFrom(s, i + Len(old), old, new)
         ELSE <<s[i]>> \o ReplaceFrom(s, i + 1, old, new)

Replace(s, old, new) == ReplaceFrom(s, 1, old, new)

\* rule.get(key, default)
Get(rule, key, default) ==
    IF key \in DOMAIN rule THEN rule[key] ELSE default

\* Python truthiness of rule.get(key) for a str-valued key
Truthy(rule, key) == key \in DOMAIN rule /\ rule[key] # <<>>

-----------------------------------------------------------------------------
(* Document format *)

Title == <<"#", " ", "T">>

HeaderPrefix == <<"#", "#", " ">>

OrigHeader == <<"#", "#", "#", " ", "O">>

ModHeader == <<"#", "#", "#", " ", "M">>

\* the three-backquote fence; "~" is the backquote character
Fence == <<"~", "~", "~">>

ExtractedFeedback == <<"E">>

\* the text one rule contributes to the document
SectionText(rule) ==
    HeaderPrefix \o Get(rule, "name", <<>>) \o <<NL, NL>>
    \o Get(rule, "description", <<>>) \o <<NL, NL>>
    \o OrigHeader \o <<NL, NL>>
    \o Fence \o <<NL>> \o Get(rule, "original_code", <<>>) \o <<NL>>
    \o Fence \o <<NL, NL>>
    \o ModHeader \o <<NL, NL>>
    \o Fence \o <<NL>> \o Get(rule, "modified_code", <<>>) \o <<NL>>
    \o Fence \o <<NL, NL>>

RECURSIVE ConcatSections(_)
ConcatSections(rules) ==
    IF Len(rules) = 0 THEN <<>>
    ELSE SectionText(Head(rules)) \o ConcatSections(Tail(rules))

ConvertRulesToMdc(rules) == Title \o <<NL, NL>> \o ConcatSections(rules)

\* the first line start at or after line start i that is followed by
\* HeaderPrefix, else Len(mdc) + 1
RECURSIVE NextHeader(_, _)
NextHeader(mdc, i) ==
    IF i > Len(mdc) THEN Len(mdc) + 1
    ELSE IF StartsWithAt(mdc, i, HeaderPrefix) THEN i
    ELSE NextHeader(mdc, Find(mdc, i, NL) + 1)

\* the pieces of mdc from index from on, cut before every header line
\* after the one at from
RECURSIVE ReSplitFrom(_, _)
ReSplitFrom(mdc, from) ==
    LET j == NextHeader(mdc, Find(mdc, from, NL) + 1)
    IN IF j > Len(mdc) THEN <<Slice(mdc, from, Len(mdc))>>
       ELSE <<Slice(mdc, from, j - 1)>> \o ReSplitFrom(mdc, j)

\* re.split on the zero-width pattern (?=^## ) with re.MULTILINE: a piece
\* ends before every line that starts with HeaderPrefix; the first piece is
\* empty when the document starts with one
ReSplit(mdc) ==
    IF StartsWithAt(mdc, 1, HeaderPrefix)
    THEN <<<<>>>> \o ReSplitFrom(mdc, 1)
    ELSE ReSplitFrom(mdc, 1)

IsFence(line) == StartsWith(Strip(line), Fence)

\* while i < len(lines) and not P(lines[i]): i += 1
RECURSIVE SkipUntilFence(_, _)
SkipUntilFence(lines, i) ==
    IF i > Len(lines) \/ IsFence(lines[i]) THEN i
    ELSE SkipUntilFence(lines, i + 1)

RECURSIVE SkipUntilHeader(_, _, _)
SkipUntilHeader(lines, i, header) ==
    IF i > Len(lines) \/ StartsWith(lines[i], header) THEN i
    ELSE SkipUntilHeader(lines, i + 1, header)

\* the rule_data of one section, before the validity test
ParseSection(section, now) ==
    LET lines == Split(Strip(section))
        rule_name == Strip(Replace(lines[1], HeaderPrefix, <<>>))
        iO == SkipUntilHeader(lines, 2, OrigHeader)
        hasO == iO <= Len(lines)
        oOpen == SkipUntilFence(lines, iO + 1)
        oClose == SkipUntilFence(lines, oOpen + 1)
        iAfterO == IF hasO THEN oClose ELSE iO
        iM == SkipUntilHeader(lines, iAfterO + 1, ModHeader)
        hasM == iM <= Len(lines)
        mOpen == SkipUntilFence(lines, iM + 1)
        mClose == SkipUntilFence(lines, mOpen + 1)
    IN [id |-> <<"name", Replace(rule_name, <<" ">>, <<"_">>), now>>,
        name |-> rule_name,
        description |-> Strip(Join(Slice(lines, 2, iO - 1))),
        original_code |->
            IF hasO THEN Join(Slice(lines, oOpen + 1, oClose - 1)) ELSE <<>>,
        modified_code |->
            IF hasM THEN Join(Slice(lines, mOpen + 1, mClose - 1)) ELSE <<>>,
        feedback |-> ExtractedFeedback,
        tags |-> {},
        created_at |-> now]

\* a section that convert_mdc_to_rules looks at: non-blank, with a name
NamedSection(section) ==
    /\ Strip(section) # <<>>
    /\ Strip(Replace(FirstLine(Strip(section)), HeaderPrefix, <<>>)) # <<>>

\* a validity test that asks for both codes
ValidRuleBothCodes(rule) ==
    /\ rule.name # <<>>
    /\ rule.original_code # <<>> /\ rule.modified_code # <<>>

\* if rule_data["name"] and (original_code or modified_code)
ValidRule(rule) ==
    /\ rule.name # <<>>
    /\ rule.original_code # <<>> \/ rule.modified_code # <<>>

RECURSIVE ParseSections(_, _)
ParseSections(sections, now) ==
    IF Len(sections) = 0 THEN <<>>
    ELSE LET rule_data == ParseSection(Head(sections), now)
             rest == ParseSections(Tail(sections), now)
         IN IF NamedSection(Head(sections)) /\ ValidRule(rule_data)
            THEN <<rule_data>> \o rest
            ELSE rest

ConvertMdcToRules(mdc, now) ==
    IF Strip(mdc) = <<>> THEN <<>>
    ELSE ParseSections(Tail(ReSplit(mdc)), now)

-----------------------------------------------------------------------------
(* The store: pure parts of the operations *)

\* load_all_rules on a document d read at time now; an absent file and an
\* empty file are both the empty document
LoadAllRules(d, now) == ConvertMdcToRules(d, now)

\* the first rule with that name, as a sequence of at most one rule
LoadRule(d, now, rule_name) ==
    LET rules == LoadAllRules(d, now)
        hits == {i \in 1..Len(rules) : rules[i].name = rule_name}
    IN IF hits = {} THEN <<>> ELSE <<rules[Min(hits)]>>

\* str(uuid.uuid4()): a token of its own kind, never equal to a parsed id
UUID4(n) == <<"uuid", <<>>, n>>

\* a duplicate check that compares the stored descriptions, not the names
NameExistsByDescription(current_rules, rule_name) ==
    \E i \in 1..Len(current_rules) : current_rules[i].description = rule_name

\* the loop of add_rule over current_rules looking for the name
NameExists(current_rules, rule_name) ==
    \E i \in 1..Len(current_rules) : current_rules[i].name = rule_name

Failure(kind) == [ok |-> FALSE, err |-> kind, rules |-> <<>>]

Proceed(rules) == [ok |-> TRUE, err |-> "", rules |-> rules]

\* add_rule up to the call of save_rules_to_mdc
AddRuleCheck(current_rules, rule, now, u) ==
    IF ~Truthy(rule, "name") THEN Failure("NameRequired")
    ELSE IF NameExists(current_rules, rule.name)
         THEN Failure("DuplicateName")
         ELSE Proceed(Append(current_rules,
                             [id |-> UUID4(u), created_at |-> now] @@ rule))

\* the condition of the update loop for one existing rule
UpdateMatches(existing_rule, rule) ==
    \/ Truthy(rule, "id") /\ existing_rule.id = rule.id
    \/ Truthy(rule, "name") /\ existing_rule.name = rule.name

\* index of the rule the update loop replaces, 0 when it finds none
UpdateTarget(current_rules, rule) ==
    LET hits == {i \in 1..Len(current_rules) :
                    UpdateMatches(current_rules[i], rule)}
    IN IF hits = {} THEN 0 ELSE Min(hits)

\* the rule stored in place of existing_rule
UpdatedRule(existing_rule, rule, now, u) ==
    [id |-> IF Truthy(existing_rule, "id")
            THEN existing_rule.id ELSE UUID4(u),
     created_at |-> Get(existing_rule, "created_at", now),
     updated_at |-> now] @@ rule

\* update_rule up to the call of save_rules_to_mdc
UpdateRuleCheck(current_rules, rule, now, u) ==
    IF ~Truthy(rule, "name") /\ ~Truthy(rule, "id")
    THEN Failure("NameOrIdRequired")
    ELSE LET i == UpdateTarget(current_rules, rule)
         IN IF i = 0 THEN Failure("NotFound")
            ELSE Proceed([current_rules EXCEPT
                            ![i] = UpdatedRule(current_rules[i], rule, now, u)])

\* the list comprehension of delete_rule
FilteredRules(current_rules, rule_name) ==
    LET Keep(rule) == rule.name # rule_name
    IN SelectSeq(current_rules, Keep)

\* delete_rule up to the call of save_rules_to_mdc
DeleteRuleCheck(current_rules, rule_name) ==
    IF Len(FilteredRules(current_rules, rule_name)) = Len(current_rules)
    THEN Failure("NotFound")
    ELSE Proceed(FilteredRules(current_rules, rule_name))

\* load_rules_by_tags; a tag list is modelled by the set of its tags
LoadRulesByTags(d, now, tags) ==
    LET all_rules == LoadAllRules(d, now)
        AnyTag(rule) == \E tag \in tags : tag \in Get(rule, "tags", {})
    IN IF tags = {} THEN all_rules ELSE SelectSeq(all_rules, AnyTag)

\* save_rules_to_mdc.  "ok": the document is replaced.  "fail_open": an
\* exception before or in open() (missing root, makedirs, open), the file is
\* untouched.  "fail_write": open(path, 'w') has truncated the file and
\* f.write raises (an unencodable character), the file is left empty.
SaveOutcomes == {"ok", "fail_open", "fail_write"}

SavedDoc(d, rules, outcome) ==
    IF outcome = "ok" THEN ConvertRulesToMdc(rules)
    ELSE IF outcome = "fail_open" THEN d
    ELSE <<>>

-----------------------------------------------------------------------------
(* Requests the callers make *)

sA == <<"a">>

sB == <<"b">>

sASpace == <<"a", " ">>

sD == <<"d">>

sX == <<"x">>

sY == <<"y">>

sZ == <<"z">>

sF == <<"f">>

\* a description whose only line is a level-2 header after a leading blank
sHeaderA == <<" ", "#", "#", " ", "a">>

\* the rule_data dict built by mcp_auto_rules_add_rule
RuleData(name, description, original_code, modified_code, tags) ==
    [name |-> name, description |-> description,
     original_code |-> original_code, modified_code |-> modified_code,
     feedback |-> sF, tags |-> tags]

AddRequests ==
    {RuleData(sA, sD, sX, sY, {"t"}),
     RuleData(sB, <<>>, sX, <<>>, {}),
     RuleData(sASpace, sD, sX, sY, {}),
     RuleData(<<>>, sD, sX, sY, {}),
     RuleData(sB, sD, <<>>, <<>>, {"t"}),
     RuleData(sB, sHeaderA, sX, sY, {})}

\* the ids a caller can pass: those a load of the current rules returns now
\* or returned at an earlier time, and one that no load returned
KnownIds(current_rules, now) ==
    {[current_rules[i].id EXCEPT ![3] = t] :
        t \in 0..now, i \in 1..Len(current_rules)}
    \cup {<<"name", <<"q">>, 0>>}

UpdateRequests(current_rules, now) ==
    {RuleData(sA, sD, sZ, sY, {}),
     [name |-> sA, original_code |-> sZ],
     [name |-> sB],
     [description |-> sD]}
    \cup {[id |-> i, name |-> sB, original_code |-> sZ, modified_code |-> sY] :
             i \in KnownIds(current_rules, now)}

DeleteNames == {sA, sB}

TagLists == {{}, {"t"}, {"u"}}

-----------------------------------------------------------------------------
(* The store as a state machine: one action per operation *)

NoCall == [op |-> "none", arg |-> [name |-> <<>>], ok |-> TRUE, err |-> "",
           save |-> "none", pre |-> <<>>, preClock |-> 0]

\* the record of a finished call: its request, its result, the save outcome
\* ("none" when the call returned before saving) and the document and time
\* it started from
Call(op, arg, res, outcome) ==
    [op |-> op, arg |-> arg,
     ok |-> res.ok /\ outcome = "ok",
     err |-> IF ~res.ok THEN res.err
             ELSE IF outcome = "ok" THEN "" ELSE "IOFailure",
     save |-> IF res.ok THEN outcome ELSE "none",
     pre |-> doc, preClock |-> clock]

\* addLog.adds lists the requests of the successful add_rule calls for as
\* long as no update_rule or delete_rule has written the document
NoLog == [only |-> FALSE, adds |-> <<>>]

\* the log after an add_rule call: it follows the adds that wrote the
\* document, up to MaxRules of them, and is given up when a write fails
Logged(log, rule, ok, outcome) ==
    IF ~ok \/ outcome = "fail_open" \/ ~log.only THEN log
    ELSE IF outcome = "ok" /\ Len(log.adds) < MaxRules
         THEN [log EXCEPT !.adds = Append(@, rule)]
         ELSE NoLog

\* no round trip under way
NoOutput == [phase |-> "none", rules |-> <<>>]

\* what a concurrent load_all_rules returned, when one has run
NoRead == [read |-> FALSE, rules |-> <<>>]

\* the codec check and the concurrent callers are not running
Idle == /\ rtIn = <<>> /\ rtOut = NoOutput
        /\ pc = <<>> /\ snap = <<>> /\ req = <<>> /\ ret = <<>>
        /\ seen = NoRead

Init ==
    /\ doc \in {<<>>, ConvertRulesToMdc(<<>>)}
    /\ clock = 0
    /\ last = NoCall
    /\ addLog = [only |-> TRUE, adds |-> <<>>]
    /\ Idle

\* add_rule(rule), for every request, uuid and save outcome
AddRule ==
    \E current_rules \in {LoadAllRules(doc, clock)} :
       /\ \E rule \in AddRequests, u \in 1..MaxUuid, outcome \in SaveOutcomes :
            \E res \in {AddRuleCheck(current_rules, rule, clock, u)} :
               /\ res.ok => Len(current_rules) < MaxRules
               /\ res.ok \/ outcome = "ok"
               /\ doc' = IF res.ok THEN SavedDoc(doc, res.rules, outcome)
                         ELSE doc
               /\ last' = Call("add", rule, res, outcome)
               /\ addLog' = Logged(addLog, rule, res.ok, outcome)
       /\ UNCHANGED <<clock, rtIn, rtOut, pc, snap, req, ret, seen>>

\* update_rule(rule)
UpdateRule ==
    \E current_rules \in {LoadAllRules(doc, clock)} :
       /\ \E rule \in UpdateRequests(current_rules, clock), u \in 1..MaxUuid,
             outcome \in SaveOutcomes :
            \E res \in {UpdateRuleCheck(current_rules, rule, clock, u)} :
               /\ res.ok \/ outcome = "ok"
               /\ doc' = IF res.ok THEN SavedDoc(doc, res.rules, outcome)
                         ELSE doc
               /\ last' = Call("update", rule, res, outcome)
               /\ addLog' = IF res.ok /\ outcome # "fail_open"
                            THEN NoLog ELSE addLog
       /\ UNCHANGED <<clock, rtIn, rtOut, pc, snap, req, ret, seen>>

\* delete_rule(rule_name)
DeleteRule ==
    \E current_rules \in {LoadAllRules(doc, clock)} :
       /\ \E rule_name \in DeleteNames, outcome \in SaveOutcomes :
            \E res \in {DeleteRuleCheck(current_rules, rule_name)} :
               /\ res.ok \/ outcome = "ok"
               /\ doc' = IF res.ok THEN SavedDoc(doc, res.rules, outcome)
                         ELSE doc
               /\ last' = Call("delete", [name |-> rule_name], res, outcome)
               /\ addLog' = IF res.ok /\ outcome # "fail_open"
                            THEN NoLog ELSE addLog
       /\ UNCHANGED <<clock, rtIn, rtOut, pc, snap, req, ret, seen>>

\* time passes between two calls
Tick ==
    /\ clock < MaxClock
    /\ clock' = clock + 1
    /\ UNCHANGED <<doc, last, addLog, rtIn, rtOut, pc, snap, req, ret, seen>>

\* the documents callers import: one section named a, two sections named
\* c, one section named b whose description is sHeaderA, and no section
ExtractDocs ==
    {ConvertRulesToMdc(<<RuleData(sA, sD, sX, sY, {})>>),
     ConvertRulesToMdc(<<RuleData(<<"c">>, sD, sX, sY, {}),
                         RuleData(<<"c">>, <<>>, sZ, <<>>, {})>>),
     ConvertRulesToMdc(<<RuleData(sB, sHeaderA, sX, sY, {})>>),
     ConvertRulesToMdc(<<>>)}

\* [rule.get("name") for rule in current_rules if rule.get("name")]
CurrentRuleNames(current_rules) ==
    {current_rules[i].name :
        i \in {j \in 1..Len(current_rules) : Truthy(current_rules[j], "name")}}

\* the state of the loop of mcp_auto_rules_extract_cursor_rules: the
\* document, the two counters, and whether every save that ran worked
LoopStart(d) ==
    [doc |-> d, new_rules_count |-> 0, conflicts_count |-> 0, save |-> "none"]

\* one pass of the loop: a name of current_rule_names is a conflict, any
\* other rule goes to add_rule, which loads the document again
LoopStep(st, rule, current_rule_names, now, u, outcome) ==
    IF ~Truthy(rule, "name") THEN st
    ELSE IF rule.name \in current_rule_names
    THEN [st EXCEPT !.conflicts_count = @ + 1]
    ELSE LET res == AddRuleCheck(LoadAllRules(st.doc, now), rule, now, u)
         IN IF ~res.ok THEN st
            ELSE [doc |-> SavedDoc(st.doc, res.rules, outcome),
                  new_rules_count |->
                     st.new_rules_count + (IF outcome = "ok" THEN 1 ELSE 0),
                  conflicts_count |-> st.conflicts_count,
                  save |-> IF st.save \in {"none", "ok"} THEN outcome
                           ELSE st.save]

RECURSIVE ExtractLoop(_, _, _, _, _, _)
ExtractLoop(st, rules, current_rule_names, now, u, outcomes) ==
    IF Len(rules) = 0 THEN st
    ELSE ExtractLoop(LoopStep(st, Head(rules), current_rule_names, now, u,
                              Head(outcomes)),
                     Tail(rules), current_rule_names, now, u, Tail(outcomes))

\* mcp_auto_rules_extract_cursor_rules(rules_content), for every document,
\* uuid and outcome of each save
ExtractCursorRules ==
    \E rules_content \in ExtractDocs, u \in 1..MaxUuid :
      \E rules \in {ConvertMdcToRules(rules_content, clock)} :
        \E current_rules \in {IF Len(rules) = 0 THEN <<>>
                              ELSE LoadAllRules(doc, clock)} :
          \E outcomes \in [1..Len(rules) -> SaveOutcomes] :
            \E st \in {ExtractLoop(LoopStart(doc), rules,
                                   CurrentRuleNames(current_rules),
                                   clock, u, outcomes)} :
               /\ Len(current_rules) + st.new_rules_count <= MaxRules
               /\ doc' = st.doc
               /\ last' = [op |-> "extract",
                           arg |-> [name |-> <<>>,
                                    rules_content |-> rules_content],
                           ok |-> TRUE, err |-> "", save |-> st.save,
                           pre |-> doc, preClock |-> clock,
                           extracted |-> Len(rules),
                           new_rules_count |-> st.new_rules_count,
                           conflicts_count |-> st.conflicts_count]
               /\ addLog' = IF st.save = "none" THEN addLog ELSE NoLog
               /\ UNCHANGED <<clock, rtIn, rtOut, pc, snap, req, ret, seen>>

\* the tools the server registers with @mcp.tool()
Tools ==
    {"mcp_auto_rules_add_rule", "mcp_auto_rules_add_code_edit_to_rules",
     "mcp_auto_rules_extract_cursor_rules", "mcp_auto_rules_delete_rule"}

ApplyCodes == {sX}

\* a caller asks for a tool that is not registered: the server has nothing
\* to run and the call fails without touching the document
CallUnregistered(tool) ==
    /\ tool \notin Tools
    /\ \E code \in ApplyCodes, tags \in TagLists :
          last' = [op |-> tool,
                   arg |-> [name |-> <<>>, code |-> code, tags |-> tags],
                   ok |-> FALSE, err |-> "UnknownTool", save |-> "none",
                   pre |-> doc, preClock |-> clock]
    /\ UNCHANGED <<doc, clock, addLog, rtIn, rtOut, pc, snap, req, ret, seen>>

Next ==
    \/ AddRule \/ UpdateRule \/ DeleteRule \/ Tick
    \/ CallUnregistered("applyRulesToCode")

Spec == Init /\ [][Next]_vars

-----------------------------------------------------------------------------
(* Properties of the store *)

\* the names of a list of rules
Names(rules) == {rules[i].name : i \in 1..Len(rules)}

\* a list of rules without the fields every parse regenerates
Content(rules) ==
    [i \in 1..Len(rules) |->
        <<rules[i].name, rules[i].description,
          rules[i].original_code, rules[i].modified_code>>]

\* the rules the last call loaded when it started
Before == LoadAllRules(last.pre, last.preClock)

\* the rules a load returns now
After == LoadAllRules(doc, clock)

\* C1: whatever add_rule, update_rule and delete_rule calls were made on an
\* empty store, the records load_all_rules returns have pairwise-distinct
\* names.
C1_NamesDistinct ==
    \A rules \in {After} :
        \A i, j \in 1..Len(rules) : i # j => rules[i].name # rules[j].name

\* C2: add_rule with a name that a stored record already has fails with
\* DuplicateName and leaves the document, hence what load_all_rules
\* returns (up to the regenerated id and created_at), as it was.
C2_DuplicateAddRejected ==
    (last.op = "add" /\ last.arg.name \in Names(Before))
        => /\ ~last.ok
           /\ last.err = "DuplicateName"
           /\ doc = last.pre
           /\ Content(After) = Content(Before)

C2_Witness ==
    /\ last.op = "add"
    /\ last.arg.name \in Names(Before)
    /\ last.err = "DuplicateName"
    /\ Len(Before) = 2

\* the position of the record the last update_rule call replaced
Target == UpdateTarget(Before, last.arg)

\* C3: after a successful update_rule, a later load returns the updated
\* record with the id and the created_at it had when loaded before the
\* update, and with an updated_at.
C3_UpdateKeepsIdentity ==
    (last.op = "update" /\ last.ok)
        => \A before \in {Before}, after \in {After}, i \in {Target} :
              /\ i <= Len(after)
              /\ after[i].id = before[i].id
              /\ after[i].created_at = before[i].created_at
              /\ "updated_at" \in DOMAIN after[i]

MergeFields ==
    {"description", "original_code", "modified_code", "feedback", "tags"}

\* C4: update_rule merges field by field: a field the request does not
\* carry keeps, in the stored record, the value it had before the update.
C4_UpdateMergesFields ==
    (last.op = "update" /\ last.ok)
        => \A before \in {Before}, after \in {After}, i \in {Target} :
              \A field \in MergeFields \ DOMAIN last.arg :
                 /\ i <= Len(after)
                 /\ after[i][field] = before[i][field]

\* C5: delete_rule with a name no stored record has fails with NotFound and
\* leaves the document as it was; with a stored name (and a write that
\* works) it succeeds, load_rule of the name then returns nothing and the
\* store holds exactly one record fewer.
C5_DeleteRemovesOne ==
    last.op = "delete"
        => \A before \in {Before}, after \in {After} :
              IF last.arg.name \notin Names(before)
              THEN ~last.ok /\ last.err = "NotFound" /\ doc = last.pre
              ELSE last.save = "ok"
                      => /\ last.ok
                         /\ LoadRule(doc, clock, last.arg.name) = <<>>
                         /\ Len(after) = Len(before) - 1

\* the tags the record named name was added with
AddedTags(name) ==
    UNION {addLog.adds[k].tags :
              k \in {j \in 1..Len(addLog.adds) : addLog.adds[j].name = name}}

\* C6: on a store built by add_rule calls, load_rules_by_tags with no tag
\* returns every stored record, and with some tags exactly the stored
\* records that were added with at least one of them.
C6_TagFilter ==
    addLog.only
        => \A after \in {After}, tags \in TagLists :
              LET Tagged(rule) == AddedTags(rule.name) \cap tags # {}
              IN Content(LoadRulesByTags(doc, clock, tags))
                    = Content(IF tags = {} THEN after
                              ELSE SelectSeq(after, Tagged))

\* C8: every section of the persisted document is a valid record: a name
\* that is not blank and at least one of the two codes non-empty.
C8_PersistedSectionsValid ==
    \A sections \in {Tail(ReSplit(doc))} :
        \A k \in 1..Len(sections) :
            \A rule \in {ParseSection(sections[k], clock)} :
                /\ Strip(rule.name) # <<>>
                /\ rule.original_code # <<>> \/ rule.modified_code # <<>>

\* C9: when the write of the document fails during add_rule, update_rule
\* or delete_rule, the call returns a failure and a following
\* load_all_rules returns the record set it returned before the call.
C9_FailedWriteLeavesState ==
    last.save \in {"fail_open", "fail_write"}
        => ~last.ok /\ Content(After) = Content(Before)

\* the positions of the stored records that have the id of the last request
IdHits == {i \in 1..Len(Before) : Before[i].id = last.arg.id}

\* C12: an update_rule request that carries an id selects its target by the
\* id alone: when no stored record has the id the call returns NotFound and
\* the document is as it was, and when a record has it (and the write works)
\* the call replaces a record with that id, whatever the name of the request.
C12_UpdateSelectsById ==
    (last.op = "update" /\ Truthy(last.arg, "id"))
        => IF IdHits = {}
           THEN ~last.ok /\ last.err = "NotFound" /\ doc = last.pre
           ELSE last.save = "ok" => last.ok /\ Target \in IdHits

\* s occurs in code as a literal substring
Occurs(code, s) == \E i \in 1..Len(code) : StartsWithAt(code, i, s)

\* the result the apply operation is to give for the candidate rules and the
\* code: each rule whose non-empty original_code occurs in the text so far
\* replaces every occurrence of it and is listed
RECURSIVE Applied(_, _)
Applied(rules, code) ==
    IF Len(rules) = 0 THEN [modifiedCode |-> code, appliedRuleNames |-> <<>>]
    ELSE LET rule == Head(rules)
             hit == rule.original_code # <<>> /\ Occurs(code, rule.original_code)
             rest == Applied(Tail(rules),
                             IF hit THEN Replace(code, rule.original_code,
                                                 rule.modified_code)
                             ELSE code)
         IN [rest EXCEPT !.appliedRuleNames =
                (IF hit THEN <<rule.name>> ELSE <<>>) \o @]

\* C15: the apply operation succeeds, returns the code rewritten by the
\* candidate rules in store order, each rule working on the output of the
\* rules before it, with the names of the applied rules in order, and
\* leaves the document as it was.
C15_ApplyComposes ==
    last.op = "applyRulesToCode"
        => /\ last.ok
           /\ last.result = Applied(LoadRulesByTags(doc, clock, last.arg.tags),
                                    last.arg.code)
           /\ doc = last.pre

\* the names of a list of rules, in its order
NameSeq(rules) == [i \in 1..Len(rules) |-> rules[i].name]

\* C16: load_all_rules keeps insertion order.  After a successful add_rule
\* it returns the names it returned before followed by the new name (as the
\* header line holds it), after a successful update_rule the same names with
\* the name of the request at the position of the updated record, and after
\* a successful delete_rule the names it returned before without the
\* deleted one, in the same order.
C16_InsertionOrder ==
    (last.ok /\ last.op \in {"add", "update", "delete"})
        => \A before \in {NameSeq(Before)}, after \in {NameSeq(After)} :
              CASE last.op = "add"
                      -> after = Append(before, Strip(last.arg.name))
                [] last.op = "update"
                      -> after = [before EXCEPT ![Target] =
                                    IF Truthy(last.arg, "name")
                                    THEN last.arg.name ELSE @]
                [] last.op = "delete"
                      -> LET Other(name) == name # last.arg.name
                         IN after = SelectSeq(before, Other)

\* C17: after a successful add_rule, load_rule of the added name returns a
\* record with the name, description, original_code and modified_code of
\* the request, and load_all_rules returns exactly one record more than
\* before the call.
C17_ReadYourWrites ==
    (last.op = "add" /\ last.ok)
        => \A hit \in {LoadRule(doc, clock, last.arg.name)} :
              /\ hit # <<>>
              /\ Content(hit) = Content(<<last.arg>>)
              /\ Len(After) = Len(Before) + 1

\* the names of the records the last call was about: the name of its
\* request and, for update_rule, the name the replaced record had
Touched ==
    {Get(last.arg, "name", <<>>), Strip(Get(last.arg, "name", <<>>))}
    \cup (IF last.op = "update" THEN {Before[Target].name} ELSE {})

\* C18: a successful add_rule, update_rule or delete_rule leaves the other
\* records alone: every record that load_all_rules returned before the call
\* under a name the call was not about is returned after it with the same
\* name, description, original_code and modified_code.
C18_OthersUnchanged ==
    (last.ok /\ last.op \in {"add", "update", "delete"})
        => \A before \in {Content(Before)}, after \in {Content(After)} :
              \A i \in 1..Len(before) :
                 before[i][1] \notin Touched
                    => \E j \in 1..Len(after) : after[j] = before[i]

\* The import on its own: the store holds nothing or what one add_rule left,
\* and callers import documents, one call after the other
InitImport ==
    /\ doc \in {<<>>}
               \cup {ConvertRulesToMdc(<<rule>>) :
                        rule \in {r \in AddRequests : ValidRule(r)}}
    /\ clock = 0
    /\ last = [NoCall EXCEPT !.pre = doc]
    /\ addLog = NoLog
    /\ Idle

NextImport == ExtractCursorRules \/ Tick

SpecImport == InitImport /\ [][NextImport]_vars

\* the rules mcp_auto_rules_extract_cursor_rules found in its document
Extracted == ConvertMdcToRules(last.arg.rules_content, last.preClock)

\* C19: an import whose saves all worked leaves every record that was
\* stored before it as it was, stores each extracted name that was not
\* stored before exactly once, and reports as the number of new rules the
\* growth of the number of stored records.
C19_ImportAddsOnce ==
    (last.op = "extract" /\ last.save \in {"none", "ok"})
        => \A before \in {Before}, after \in {After} :
              /\ \A i \in 1..Len(before) :
                    \E j \in 1..Len(after) :
                       Content(after)[j] = Content(before)[i]
              /\ \A name \in Names(Extracted) \ Names(before) :
                    Cardinality({j \in 1..Len(after) : after[j].name = name})
                       = 1
              /\ last.new_rules_count = Len(after) - Len(before)

-----------------------------------------------------------------------------
(* The codec on its own: serialize a list of records, parse the text *)

sXY == <<"x", NL, "y">>

sDD == <<"d", NL, "d">>

RoundTripPool ==
    {RuleData(sA, sD, sX, sY, {}),
     RuleData(sB, <<>>, sXY, <<>>, {}),
     RuleData(sA, sDD, <<>>, sY, {}),
     RuleData(sB, sD, <<"x", NL>>, <<" ", "y", " ">>, {}),
     RuleData(<<"a", " ", "b">>, sD, sX, sY, {}),
     RuleData(<<>>, sD, sX, sY, {}),
     RuleData(sB, sD, <<>>, <<>>, {}),
     RuleData(sASpace, sD, sX, sY, {}),
     RuleData(<<"a", NL, "b">>, sD, sX, sY, {}),
     RuleData(<<"a", "#", "#", " ", "b">>, sD, sX, sY, {}),
     RuleData(sA, <<" ", "d">>, sX, sY, {}),
     RuleData(sA, <<"d", NL, "#", "#", " ", "b">>, sX, sY, {}),
     RuleData(sA, <<"d", NL>> \o OrigHeader, sX, sY, {}),
     RuleData(sA, sD, Fence, sY, {}),
     RuleData(sA, sD, sX, <<"y", NL, " ">> \o Fence \o <<"z">>, {}),
     RuleData(sA, sD, <<"x", NL, "#", "#", " ", "b">>, sY, {})}

RECURSIVE ListsUpTo(_, _)
ListsUpTo(S, n) ==
    IF n = 0 THEN {<<>>}
    ELSE ListsUpTo(S, n - 1)
         \cup {Append(l, x) : l \in {m \in ListsUpTo(S, n - 1) : Len(m) = n - 1},
                              x \in S}

InitCodec ==
    /\ rtIn \in ListsUpTo(RoundTripPool, MaxLen)
    /\ rtOut = [phase |-> "input", rules |-> <<>>]
    /\ doc = <<>>
    /\ clock = 0
    /\ last = NoCall
    /\ addLog = NoLog
    /\ pc = <<>> /\ snap = <<>> /\ req = <<>> /\ ret = <<>>
    /\ seen = NoRead

\* mdc_content = convert_rules_to_mdc(rules)
Serialize ==
    /\ rtOut.phase = "input"
    /\ doc' = ConvertRulesToMdc(rtIn)
    /\ rtOut' = [rtOut EXCEPT !.phase = "text"]
    /\ UNCHANGED <<clock, last, addLog, rtIn, pc, snap, req, ret, seen>>

\* rules = convert_mdc_to_rules(mdc_content)
Parse ==
    /\ rtOut.phase = "text"
    /\ rtOut' = [phase |-> "parsed", rules |-> ConvertMdcToRules(doc, clock)]
    /\ UNCHANGED <<doc, clock, last, addLog, rtIn, pc, snap, req, ret, seen>>

NextCodec == Serialize \/ Parse

SpecCodec == InitCodec /\ [][NextCodec]_vars

\* the precondition of the round trip: pairwise-distinct non-empty names
\* and, in every record, a non-empty original_code or modified_code
RoundTripInput ==
    /\ \A i, j \in 1..Len(rtIn) : i # j => rtIn[i].name # rtIn[j].name
    /\ \A i \in 1..Len(rtIn) :
          /\ rtIn[i].name # <<>>
          /\ rtIn[i].original_code # <<>> \/ rtIn[i].modified_code # <<>>

\* a name the header line gives back: one line, no whitespace at its ends,
\* no HeaderPrefix in it
PlainName(name) ==
    /\ \A k \in 1..Len(name) : name[k] # NL
    /\ \A k \in {1, Len(name)} : name[k] \notin Whitespace
    /\ \A k \in 1..Len(name) : ~StartsWithAt(name, k, HeaderPrefix)

LinesOf(text) == {Split(text)[k] : k \in 1..Len(Split(text))}

\* a description the section gives back: no whitespace at its ends, no
\* line that starts a section or the original-code block
PlainDescription(description) ==
    /\ \A k \in {1, Len(description)} \cap 1..Len(description) :
          description[k] \notin Whitespace
    /\ \A line \in LinesOf(description) :
          ~StartsWith(line, HeaderPrefix) /\ ~StartsWith(line, OrigHeader)

\* a code the fenced block gives back: no line that starts a section, no
\* line that is a fence once its surrounding whitespace is removed
PlainCode(code) ==
    \A line \in LinesOf(code) :
        /\ ~StartsWith(line, HeaderPrefix)
        /\ \A k \in {FirstInk(line, 1)} : ~StartsWithAt(line, k, Fence)

PlainInput ==
    \A i \in 1..Len(rtIn) :
        /\ PlainName(rtIn[i].name)
        /\ PlainDescription(rtIn[i].description)
        /\ PlainCode(rtIn[i].original_code)
        /\ PlainCode(rtIn[i].modified_code)

\* C7 as stated: for every list of records with pairwise-distinct non-empty
\* names and a non-empty code each, parsing the serialized list gives the
\* same records in the same order, compared on name, description,
\* original_code and modified_code.
C7_RoundTrip ==
    (rtOut.phase = "parsed" /\ RoundTripInput)
        => Content(rtOut.rules) = Content(rtIn)

\* C7 amended: the round trip holds when, in addition, every name is one
\* line without surrounding whitespace and without the header prefix,
\* every description has no surrounding whitespace and no line starting
\* with the header prefix or the original-code label, and no code has a
\* line starting with the header prefix or a line that is a fence after
\* trimming.
C7_RoundTripPlain ==
    (rtOut.phase = "parsed" /\ RoundTripInput /\ PlainInput)
        => Content(rtOut.rules) = Content(rtIn)

C7_Witness ==
    /\ rtOut.phase = "parsed"
    /\ RoundTripInput
    /\ PlainInput
    /\ Len(rtIn) = 2
    /\ \E i \in 1..Len(rtIn) : Len(Split(rtIn[i].original_code)) > 1

\* the ids of a list of rules are pairwise distinct
IdsDistinct(rules) ==
    \A i, j \in 1..Len(rules) : i # j => rules[i].id # rules[j].id

\* C13: the records convert_mdc_to_rules returns for a document, and so the
\* records load_all_rules returns, have pairwise-distinct ids.
C13_IdsDistinct ==
    /\ IdsDistinct(After)
    /\ rtOut.phase = "parsed" => IdsDistinct(rtOut.rules)

-----------------------------------------------------------------------------
(* The parser on documents written by hand: every section is either the   *)
(* text the serializer gives for a record or one of its damaged forms.    *)

\* "whole": as serialized.  "no_modified": nothing after the original-code
\* block.  "no_fence": the modified-code label followed by the code without
\* fences.  "open_fence": the modified-code block without its closing
\* fence.  "no_blocks": name and description only.  "no_name": a header
\* line without a name.
Shapes ==
    {"whole", "no_modified", "no_fence", "open_fence", "no_blocks", "no_name"}

\* the header line with the given name, and the description
HeadText(name, rule) ==
    HeaderPrefix \o name \o <<NL, NL>> \o rule.description \o <<NL, NL>>

OrigBlock(rule) ==
    OrigHeader \o <<NL, NL>>
    \o Fence \o <<NL>> \o rule.original_code \o <<NL>> \o Fence \o <<NL, NL>>

\* the text of the section of rule in the shape rule.shape
ShapedSection(rule) ==
    CASE rule.shape = "whole" -> SectionText(rule)
      [] rule.shape = "no_modified" ->
            HeadText(rule.name, rule) \o OrigBlock(rule)
      [] rule.shape = "no_fence" ->
            HeadText(rule.name, rule) \o OrigBlock(rule)
            \o ModHeader \o <<NL, NL>> \o rule.modified_code \o <<NL, NL>>
      [] rule.shape = "open_fence" ->
            HeadText(rule.name, rule) \o OrigBlock(rule)
            \o ModHeader \o <<NL, NL>>
            \o Fence \o <<NL>> \o rule.modified_code \o <<NL, NL>>
      [] rule.shape = "no_blocks" -> HeadText(rule.name, rule)
      [] rule.shape = "no_name" -> HeadText(<<>>, rule) \o OrigBlock(rule)

RECURSIVE ConcatShaped(_)
ConcatShaped(rules) ==
    IF Len(rules) = 0 THEN <<>>
    ELSE ShapedSection(Head(rules)) \o ConcatShaped(Tail(rules))

\* records with an original_code, each in every shape
ShapedPool ==
    {[shape |-> shape] @@ rule :
        shape \in Shapes,
        rule \in {RuleData(sA, sD, sX, sY, {}),
                  RuleData(sB, <<>>, sXY, sY, {}),
                  RuleData(<<"c">>, sDD, sX, <<>>, {})}}

InitMalformed ==
    /\ rtIn \in ListsUpTo(ShapedPool, MaxLen)
    /\ rtOut = [phase |-> "input", rules |-> <<>>]
    /\ doc = <<>>
    /\ clock = 0
    /\ last = NoCall
    /\ addLog = NoLog
    /\ pc = <<>> /\ snap = <<>> /\ req = <<>> /\ ret = <<>>
    /\ seen = NoRead

\* the document file as its author left it
WriteSections ==
    /\ rtOut.phase = "input"
    /\ doc' = Title \o <<NL, NL>> \o ConcatShaped(rtIn)
    /\ rtOut' = [rtOut EXCEPT !.phase = "text"]
    /\ UNCHANGED <<clock, last, addLog, rtIn, pc, snap, req, ret, seen>>

NextMalformed == WriteSections \/ Parse

SpecMalformed == InitMalformed /\ [][NextMalformed]_vars

\* the sections come from records with distinct names, an original_code and
\* text that the format gives back
ShapedInput ==
    /\ RoundTripInput
    /\ PlainInput
    /\ \A i \in 1..Len(rtIn) : rtIn[i].original_code # <<>>

\* C14: a malformed section does not abort parsing.  A section with the
\* original-code block and no modified-code fence gives a record with its
\* original_code, which is not empty, and an empty modified_code; and every
\* well-formed section is returned with its own name, description,
\* original_code and modified_code, whatever sections are around it.
C14_MalformedContained ==
    (rtOut.phase = "parsed" /\ ShapedInput)
        => \A i \in 1..Len(rtIn), rules \in {rtOut.rules} :
              /\ rtIn[i].shape \in {"no_modified", "no_fence"}
                    => \E j \in 1..Len(rules) :
                          /\ rules[j].name = rtIn[i].name
                          /\ rules[j].original_code = rtIn[i].original_code
                          /\ rules[j].original_code # <<>>
                          /\ rules[j].modified_code = <<>>
              /\ rtIn[i].shape = "whole"
                    => \E j \in 1..Len(rules) :
                          Content(rules)[j] = Content(rtIn)[i]

C14_Witness ==
    /\ rtOut.phase = "parsed"
    /\ ShapedInput
    /\ Len(rtIn) = 2
    /\ rtIn[1].shape = "no_fence"
    /\ rtIn[2].shape = "whole"
    /\ Len(rtOut.rules) = 2

-----------------------------------------------------------------------------
(* Two callers in add_rule at once.  A call blocks only in file access, so *)
(* its steps are the read of load_all_rules, the open(path, 'w') of        *)
(* save_rules_to_mdc, which truncates, and the write of the buffered text  *)
(* at offset 0 when the file is closed.                                    *)

Procs == {1, 2}

\* requests that add a valid record with a trimmed name
ConcRequests ==
    {RuleData(sA, sD, sX, sY, {"t"}),
     RuleData(sB, <<>>, sX, <<>>, {}),
     RuleData(<<"c">>, sD, <<>>, sY, {})}

\* documents of a store before the two calls
ConcStores ==
    {<<>>, ConvertRulesToMdc(<<>>)}
    \cup {ConvertRulesToMdc(<<r>>) : r \in ConcRequests}

InitConc ==
    /\ doc \in ConcStores
    /\ clock = 0
    /\ last = [NoCall EXCEPT !.pre = doc]
    /\ addLog = NoLog
    /\ rtIn = <<>> /\ rtOut = NoOutput
    /\ req \in [Procs -> ConcRequests]
    /\ pc = [p \in Procs |-> "start"]
    /\ snap = [p \in Procs |-> <<>>]
    /\ ret = [p \in Procs |-> "none"]
    /\ seen = NoRead

\* add_rule from its entry to the call of save_rules_to_mdc: one read
AddStart(p) ==
    /\ pc[p] = "start"
    /\ \E u \in 1..MaxUuid :
         \E res \in {AddRuleCheck(LoadAllRules(doc, clock), req[p], clock, u)} :
            IF res.ok
            THEN /\ snap' = [snap EXCEPT ![p] = res.rules]
                 /\ pc' = [pc EXCEPT ![p] = "open"]
                 /\ ret' = ret
            ELSE /\ ret' = [ret EXCEPT ![p] = res.err]
                 /\ pc' = [pc EXCEPT ![p] = "done"]
                 /\ snap' = snap
    /\ UNCHANGED <<doc, clock, last, addLog, rtIn, rtOut, req, seen>>

\* save_rules_to_mdc up to open(cursor_rules_path, 'w'): the file is
\* truncated, or an exception makes the call return a failure
SaveOpen(p) ==
    /\ pc[p] = "open"
    /\ \E opened \in BOOLEAN :
          IF opened
          THEN /\ doc' = <<>>
               /\ pc' = [pc EXCEPT ![p] = "write"]
               /\ ret' = ret
          ELSE /\ doc' = doc
               /\ pc' = [pc EXCEPT ![p] = "done"]
               /\ ret' = [ret EXCEPT ![p] = "IOFailure"]
    /\ UNCHANGED <<clock, last, addLog, rtIn, rtOut, snap, req, seen>>

\* text written at offset 0 of a file that holds d
Overwrite(d, text) == text \o Slice(d, Len(text) + 1, Len(d))

\* f.write(mdc_content) and the close of the file
SaveWrite(p) ==
    /\ pc[p] = "write"
    /\ \E written \in BOOLEAN :
          IF written
          THEN /\ doc' = Overwrite(doc, ConvertRulesToMdc(snap[p]))
               /\ ret' = [ret EXCEPT ![p] = "ok"]
          ELSE /\ doc' = doc
               /\ ret' = [ret EXCEPT ![p] = "IOFailure"]
    /\ pc' = [pc EXCEPT ![p] = "done"]
    /\ UNCHANGED <<clock, last, addLog, rtIn, rtOut, snap, req, seen>>

\* load_all_rules called by a third caller while the two are running: one
\* read of the whole file
Load ==
    /\ seen' = [read |-> TRUE, rules |-> LoadAllRules(doc, clock)]
    /\ UNCHANGED <<doc, clock, last, addLog, rtIn, rtOut, pc, snap, req, ret>>

NextConc ==
    \/ \E p \in Procs : AddStart(p) \/ SaveOpen(p) \/ SaveWrite(p)
    \/ Load

SpecConc == InitConc /\ [][NextConc]_vars

\* C10: two concurrent add_rule calls with distinct names that are not in
\* the store: if both return success, a following load_all_rules contains
\* both records.
C10_NoLostAdd ==
    (/\ \A p \in Procs : pc[p] = "done" /\ ret[p] = "ok"
     /\ req[1].name # req[2].name
     /\ \A p \in Procs : req[p].name \notin Names(LoadAllRules(last.pre, 0)))
        => \A p \in Procs : req[p].name \in Names(After)

\* the record sets the store holds before and after the running add_rule
\* calls: the one the calls started from and, for every call that has
\* opened the file for writing, the one its document parses to
CompleteSets ==
    {Content(LoadAllRules(last.pre, 0))}
    \cup {Content(LoadAllRules(ConvertRulesToMdc(snap[p]), 0)) :
             p \in {q \in Procs : pc[q] \in {"write", "done"}
                                   /\ snap[q] # <<>>}}

\* C11: a load_all_rules that runs while add_rule calls write the document
\* returns the complete record set from before a call or the complete record
\* set a call saves, never an empty or partial one.
C11_AtomicReplace ==
    seen.read => Content(seen.rules) \in CompleteSets

====
